---------------------------- MODULE Spec2Model ----------------------------
(***************************************************************************)
(* One invocation of lib/standalone.js (module.exports): the synchronous   *)
(* prologue (ignore file, input validation, formatter selection, engine    *)
(* creation), then either the inline lint or glob expansion followed by    *)
(* one lint task per surviving path, joined by Promise.all and turned into *)
(* the return value by prepareReturnValue.                                 *)
(***************************************************************************)
EXTENDS Integers, Sequences, FiniteSets, TLC

(***************************************************************************)
(* Bounds of the model                                                     *)
(***************************************************************************)
\* number of style sheets in the working directory (their names are 1..NumFiles)
NumFiles == 2

(***************************************************************************)
(* Characters of the ignore file.  A file name is one character, a number  *)
(* in 1..NumFiles; the two line-ending characters are their ASCII codes.   *)
(***************************************************************************)
LF == 10
CR == 13

(***************************************************************************)
(* JavaScript values of the options                                        *)
(***************************************************************************)
Undefined == [type |-> "undefined"]
\* a string that is not a glob pattern: s is "" or some text
Str(s) == [type |-> "string", val |-> s]
\* a truthy value that is not a string (a number, an object)
NonString == [type |-> "number", val |-> "42"]
Func(f) == [type |-> "function", val |-> f]
Arr(s) == [type |-> "array", val |-> s]

IsString(v) == v.type = "string"
\* JavaScript truthiness of the values above: undefined and "" are falsy
Truthy(v) ==
    CASE v.type = "undefined" -> FALSE
      [] v.type = "string" /\ v.val = "" -> FALSE
      [] OTHER -> TRUE

(***************************************************************************)
(* Paths and glob patterns                                                 *)
(***************************************************************************)
\* the dependency directory that holds a style sheet
VARIABLE depDir

\* a path: the directory under the working directory, the file name, and
\* whether the path is written absolute (from the root) or relative to cwd
Path(abs, dir, base) == [type |-> "string", val |-> "path", abs |-> abs, dir |-> dir, base |-> base]
\* the directories of installed dependencies
DependencyDirs == {"node_modules", "bower_components"}
\* the files on disk, in the order the glob engine walks them: the style
\* sheets of the working directory and one of a dependency, in depDir
FsFiles ==
    [i \in 1..(NumFiles + 1) |->
        IF i <= NumFiles THEN [dir |-> ".", base |-> i]
        ELSE [dir |-> depDir, base |-> 1]]

\* glob patterns: "<n>.css", "/cwd/<n>.css", "*.css", "**/*.css", "**/<dir>/**"
Lit(n) == [type |-> "string", val |-> "lit", neg |-> FALSE, abs |-> FALSE, arg |-> n, dir |-> "."]
AbsLit(n) == [type |-> "string", val |-> "lit", neg |-> FALSE, abs |-> TRUE, arg |-> n, dir |-> "."]
StarCss == [type |-> "string", val |-> "star", neg |-> FALSE, abs |-> FALSE, arg |-> 0, dir |-> "."]
DeepCss == [type |-> "string", val |-> "deep", neg |-> FALSE, abs |-> FALSE, arg |-> 0, dir |-> "."]
Under(d) == [type |-> "string", val |-> "under", neg |-> FALSE, abs |-> FALSE, arg |-> 0, dir |-> d]
\* "!" + glob
Negate(g) == [g EXCEPT !.neg = TRUE]

ALWAYS_IGNORED_GLOBS == << Under("node_modules"), Under("bower_components") >>


(***************************************************************************)
(* The ignore file: fs.readFileSync either returns its text or fails with  *)
(* an error code.                                                          *)
(***************************************************************************)
FILE_NOT_FOUND_ERROR_CODE == "ENOENT"

IgnoreTexts ==
    { << >>,                        \* an empty file
      << 1 >>,                      \* "1"
      << NumFiles, LF >>,           \* "<N>\n"
      << NumFiles, LF, 1 >>,        \* "<N>\n1"
      << NumFiles, CR, LF, 1 >>,    \* "<N>\r\n1"
      << LF, CR, LF >> }            \* blank lines only

IgnoreFiles ==
    { [code |-> "OK", text |-> t] : t \in IgnoreTexts }
        \cup { [code |-> c, text |-> << >>] : c \in {FILE_NOT_FOUND_ERROR_CODE, "EACCES"} }

\* a JavaScript error object: its name, what it is about, the lint task that
\* raised it (0: none) and, for a syntax error, where it was found
JsError(name, code, task, file) ==
    [name |-> name, code |-> code, task |-> task, file |-> file,
     line |-> 1, column |-> 1, reason |-> "Unknown word"]

\* the error fs.readFileSync throws
ReadError(c) == JsError("Error", c, 0, Undefined)

\* ignoreText.split(/\r?\n/), one character at a time: `cur` is the line read
\* so far, `acc` the lines already closed
RECURSIVE SplitFrom(_, _, _, _)
SplitFrom(text, i, cur, acc) ==
    IF i > Len(text) THEN Append(acc, cur)
    ELSE IF text[i] = LF
         THEN LET line == IF Len(cur) > 0 /\ cur[Len(cur)] = CR
                          THEN SubSeq(cur, 1, Len(cur) - 1)
                          ELSE cur
              IN  SplitFrom(text, i + 1, << >>, Append(acc, line))
         ELSE SplitFrom(text, i + 1, Append(cur, text[i]), acc)

\* the bug of splitting on "\n" alone: a "\r" stays at the end of the line
RECURSIVE SplitOnLfFrom(_, _, _, _)
SplitOnLfFrom(text, i, cur, acc) ==
    IF i > Len(text) THEN Append(acc, cur)
    ELSE IF text[i] = LF
         THEN SplitOnLfFrom(text, i + 1, << >>, Append(acc, cur))
         ELSE SplitOnLfFrom(text, i + 1, Append(cur, text[i]), acc)

SplitOnLf(text) == SplitOnLfFrom(text, 1, << >>, << >>)

Split(text) == SplitFrom(text, 1, << >>, << >>)

\* ignore().add(lines): blank lines are no rules
AddRules(lines) == SelectSeq(lines, LAMBDA l : l # << >>)

\* a rule without a slash is a file name and matches it in every directory
RuleMatches(rule, p) == rule = << p.base >>

Ignores(rules, p) == \E k \in 1..Len(rules) : RuleMatches(rules[k], p)

\* ignorer.filter(paths)
IgnorerFilter(rules, paths) == SelectSeq(paths, LAMBDA p : ~Ignores(rules, p))


(***************************************************************************)
(* Paths: path.relative, path.isAbsolute, path.join; glob expansion        *)
(***************************************************************************)
\* path.relative(process.cwd(), p): every file of the model is under cwd
PathRelative(p) == Path(FALSE, p.dir, p.base)
\* !path.isAbsolute(p) ? path.join(process.cwd(), p) : p
Absolute(p) == IF ~p.abs THEN Path(TRUE, p.dir, p.base) ELSE p

\* does glob g (its "!" put aside) match file f of the disk
GlobMatches(g, f) ==
    CASE g.val = "lit" -> f.dir = "." /\ f.base = g.arg
      [] g.val = "star" -> f.dir = "."
      [] g.val = "deep" -> TRUE
      [] g.val = "under" -> f.dir = g.dir
      [] OTHER -> FALSE

\* the paths one positive pattern, at position i of the list, expands to: the
\* files it matches, less those a negated pattern from i on matches
ExpandOne(fileList, i) ==
    LET g == fileList[i]
        kept(f) == /\ GlobMatches(g, f)
                   /\ ~\E j \in i..Len(fileList) :
                          fileList[j].neg /\ GlobMatches(fileList[j], f)
        hit == SelectSeq(FsFiles, kept)
    IN  [k \in 1..Len(hit) |-> Path(g.abs, hit[k].dir, hit[k].base)]

\* s followed by the elements of t that s does not hold
RECURSIVE Union(_, _)
Union(s, t) ==
    IF t = << >> THEN s
    ELSE IF \E k \in 1..Len(s) : s[k] = Head(t)
         THEN Union(s, Tail(t))
         ELSE Union(Append(s, Head(t)), Tail(t))

\* globby(fileList): the union, pattern by pattern, of the positive patterns
RECURSIVE GlobbyFrom(_, _, _)
GlobbyFrom(fileList, i, acc) ==
    IF i > Len(fileList) THEN acc
    ELSE IF fileList[i].neg THEN GlobbyFrom(fileList, i + 1, acc)
         ELSE GlobbyFrom(fileList, i + 1, Union(acc, ExpandOne(fileList, i)))

Globby(fileList) == GlobbyFrom(fileList, 1, << >>)

\* the negated globs put before the patterns of the user
FileListPrepended(files, disableDefaultIgnores) ==
    LET list == IF IsString(files) THEN << files >> ELSE files.val
    IN  IF ~disableDefaultIgnores
        THEN [k \in 1..Len(ALWAYS_IGNORED_GLOBS) |-> Negate(ALWAYS_IGNORED_GLOBS[k])] \o list
        ELSE list

\* lines 85-91: the pattern list handed to globby
FileList(files, disableDefaultIgnores) ==
    LET list == IF IsString(files) THEN << files >> ELSE files.val
    IN  IF ~disableDefaultIgnores
        THEN list \o [k \in 1..Len(ALWAYS_IGNORED_GLOBS) |-> Negate(ALWAYS_IGNORED_GLOBS[k])]
        ELSE list

(***************************************************************************)
(* Formatters                                                              *)
(***************************************************************************)
\* require("./formatters"): the registry of built-in formatters
FormatterNames == {"json", "string", "verbose"}
\* formatters[name]
Formatters(name) == IF name \in FormatterNames THEN Func(name) ELSE Undefined
\* formatterFunction(results): a pure function of the results
Format(f, results) == [by |-> f.val, of |-> results]
\* needlessDisables(results)
NeedlessDisables(results) == [needless |-> results]

\* new Error("You must pass stylelint a `files` glob or a `code` string, though not both")
FilesOrCodeError == JsError("Error", "files-or-code", 0, Undefined)
\* new Error("You must use a valid formatter option: 'json', 'string', 'verbose', or a function")
FormatterError == JsError("Error", "formatter", 0, Undefined)


(***************************************************************************)
(* The lint engine (createStylelint): what one _lintSource call, followed  *)
(* by _createStylelintResult, can produce                                  *)
(***************************************************************************)
\* how a lint settles: a result without or with errors, a syntax error, or
\* any other failure
EngineKinds == {"clean", "errored", "syntax", "fatal"}

\* the result record the engine builds for `source`
EngineResult(source, errored) ==
    [source |-> source, deprecations |-> << >>, invalidOptionWarnings |-> << >>,
     errored |-> errored,
     warnings |-> IF errored
                  THEN << [line |-> 1, column |-> 1, rule |-> "block-no-empty",
                           severity |-> "error", text |-> << "Unexpected empty block" >>] >>
                  ELSE << >>]

\* the settlement of the engine's promise for task i, linting `file` (an
\* absolute path, or Undefined for inline code without a name), shown as `source`
EngineOutcome(kind, i, file, source) ==
    CASE kind = "clean" -> [state |-> "fulfilled", value |-> EngineResult(source, FALSE)]
      [] kind = "errored" -> [state |-> "fulfilled", value |-> EngineResult(source, TRUE)]
      [] kind = "syntax" ->
            [state |-> "rejected", value |-> JsError("CssSyntaxError", "syntax", i, file)]
      [] OTHER -> [state |-> "rejected", value |-> JsError("TypeError", "engine", i, Undefined)]

(***************************************************************************)
(* handleError, convertCssSyntaxErrorToResult, prepareReturnValue          *)
(***************************************************************************)
\* error.file without the placeholder
ErrorSourceIsFile(error) == error.file

\* error.file || "<input css 1>"
ErrorSource(error) == IF Truthy(error.file) THEN error.file ELSE Str("<input css 1>")

\* lines 146-158; called with a CssSyntaxError only (line 142 is checked by
\* the caller, line 130)
convertCssSyntaxErrorToResult(error) ==
    [source |-> ErrorSource(error),
     deprecations |-> << >>,
     invalidOptionWarnings |-> << >>,
     errored |-> TRUE,
     warnings |-> << [line |-> error.line, column |-> error.column, rule |-> error.name,
                      severity |-> "error",
                      text |-> << error.reason, " (", error.name, ")" >>] >>]

\* handleError without its test of the error's name: every error is thrown again
handleErrorRethrowsAll(settled) == settled

\* handleError turning every error into a result
handleErrorConvertsAll(settled) ==
    IF settled.state = "fulfilled" THEN settled
    ELSE [state |-> "fulfilled", value |-> convertCssSyntaxErrorToResult(settled.value)]

\* .catch(handleError) applied to a settled promise: a fulfilled one passes, a
\* CssSyntaxError becomes a result, any other error is thrown again
handleError(settled) ==
    IF settled.state = "fulfilled" THEN settled
    ELSE IF settled.value.name = "CssSyntaxError"
         THEN [state |-> "fulfilled", value |-> convertCssSyntaxErrorToResult(settled.value)]
         ELSE settled

\* every in the place of some
EveryErrored(results) == \A k \in 1..Len(results) : results[k].errored

\* stylelintResults.some(result => result.errored)
SomeErrored(results) == \E k \in 1..Len(results) : results[k].errored

\* the needlessDisables field set whether it was asked for or not
prepareReturnValueAlwaysNeedless(results, formatterFn, reportNeedless) ==
    [errored |-> SomeErrored(results),
     output |-> Format(formatterFn, results),
     results |-> results,
     needlessDisables |-> IF reportNeedless THEN NeedlessDisables(results)
                          ELSE NeedlessDisables(<< >>)]

\* a report whose output renders the errored results only
prepareReturnValueFormatsErrored(results, formatterFn, reportNeedless) ==
    LET shown == SelectSeq(results, LAMBDA r : r.errored)
    IN  IF reportNeedless
        THEN [errored |-> SomeErrored(results), output |-> Format(formatterFn, shown),
              results |-> results, needlessDisables |-> NeedlessDisables(results)]
        ELSE [errored |-> SomeErrored(results), output |-> Format(formatterFn, shown),
              results |-> results]

prepareReturnValue(results, formatterFn, reportNeedless) ==
    LET returnValue == [errored |-> SomeErrored(results),
                        output |-> Format(formatterFn, results),
                        results |-> results]
    IN  IF reportNeedless
        THEN [errored |-> returnValue.errored, output |-> returnValue.output,
              results |-> returnValue.results,
              needlessDisables |-> NeedlessDisables(results)]
        ELSE returnValue


(***************************************************************************)
(* The options of the invocation                                           *)
(***************************************************************************)
FilesValues ==
    { Undefined, Str(""), StarCss, Arr(<< >>), Arr(<< DeepCss >>),
      Arr(<< Lit(NumFiles), AbsLit(1) >>) }
CodeValues == { Undefined, Str(""), Str("a {}") }
CodeFilenameValues == { Undefined, Path(FALSE, ".", 1), Path(TRUE, ".", 1) }
FormatterValues == { Undefined, Str("verbose"), Str("bogus"), Func("custom"), NonString }

\* codeFilename is only read in inline mode: it varies there alone
Options ==
    { o \in [files : FilesValues, code : CodeValues, codeFilename : CodeFilenameValues,
             formatter : FormatterValues, reportNeedlessDisables : BOOLEAN,
             disableDefaultIgnores : BOOLEAN] :
        o.codeFilename # Undefined => (IsString(o.code) /\ ~Truthy(o.files)) }

(***************************************************************************)
(* State                                                                   *)
(***************************************************************************)
VARIABLES
    options,            \* the options object of the invocation
    ignoreFile,         \* what reading the ignore file gives
    pc,                 \* where the invocation stands
    ignorer,            \* the rules of ignore().add(...)
    formatterFunction,  \* the formatter chosen, Undefined before
    stylelint,          \* TRUE once createStylelint has been called
    fileList,           \* the patterns globby was called with
    globbed,            \* the paths globby resolved with
    filePaths,          \* the resolved inputs: the paths left by ignorer.filter
    tasks,              \* getStylelintResults: one promise per input
    all,                \* the promise of Promise.all
    outcome,            \* how the invocation ended, if it has
    log,                \* the filesystem and engine calls made, in order
    formatterCalls,     \* the arguments formatterFunction was called with
    needlessCalls,      \* the arguments needlessDisables was called with
    completionOrder     \* the task indices in the order the lints settled

vars == << options, ignoreFile, depDir, pc, ignorer, formatterFunction, stylelint, fileList, globbed,
           filePaths, tasks, all, outcome, log, formatterCalls, needlessCalls,
           completionOrder >>

Pending == [kind |-> "pending", value |-> Undefined]
Threw(e) == [kind |-> "threw", value |-> e]
Rejected(e) == [kind |-> "rejected", value |-> e]
Resolved(r) == [kind |-> "resolved", value |-> r]

PendingTask == [state |-> "pending", value |-> Undefined, raw |-> "none"]
NoJoin == [state |-> "none", values |-> << >>, settled |-> {}, error |-> Undefined]

Init ==
    /\ options \in Options
    /\ ignoreFile \in IgnoreFiles
    /\ depDir \in DependencyDirs
    /\ pc = "readIgnore"
    /\ ignorer = << >>
    /\ formatterFunction = Undefined
    /\ stylelint = FALSE
    /\ fileList = << >>
    /\ globbed = << >>
    /\ filePaths = << >>
    /\ tasks = << >>
    /\ all = NoJoin
    /\ outcome = Pending
    /\ log = << >>
    /\ formatterCalls = << >>
    /\ needlessCalls = << >>
    /\ completionOrder = << >>

(***************************************************************************)
(* The synchronous prologue, lines 31-69                                   *)
(***************************************************************************)
\* the read without the test of the error code: every failure is thrown
ReadIgnoreTextAllFatal(file) ==
    IF file.code = "OK" THEN [ok |-> TRUE, text |-> file.text, error |-> Undefined]
    ELSE [ok |-> FALSE, text |-> << >>, error |-> ReadError(file.code)]

\* lines 35-41: the text the ignorer is built from, or the error thrown
ReadIgnoreText(file) ==
    IF file.code = "OK" THEN [ok |-> TRUE, text |-> file.text, error |-> Undefined]
    ELSE IF file.code # FILE_NOT_FOUND_ERROR_CODE
         THEN [ok |-> FALSE, text |-> << >>, error |-> ReadError(file.code)]
         ELSE [ok |-> TRUE, text |-> << >>, error |-> Undefined]

ReadIgnoreFile ==
    /\ pc = "readIgnore"
    /\ log' = Append(log, "readFileSync")
    /\ LET r == ReadIgnoreText(ignoreFile)
       IN  IF r.ok
           THEN /\ ignorer' = AddRules(Split(r.text))
                /\ pc' = "validate"
                /\ outcome' = outcome
           ELSE /\ outcome' = Threw(r.error)
                /\ pc' = "done"
                /\ ignorer' = ignorer
    /\ UNCHANGED << options, ignoreFile, depDir, fileList, formatterFunction, stylelint, globbed, filePaths,
                    tasks, all, formatterCalls, needlessCalls, completionOrder >>

\* line 43-44: the condition under which line 45 throws
InvalidInput(files, code) ==
    LET isValidCode == IsString(code)
    IN  \/ (~Truthy(files) /\ ~isValidCode)
        \/ (Truthy(files) /\ (Truthy(code) \/ isValidCode))

ValidateInput ==
    /\ pc = "validate"
    /\ IF InvalidInput(options.files, options.code)
       THEN /\ outcome' = Threw(FilesOrCodeError)
            /\ pc' = "done"
       ELSE /\ pc' = "formatter"
            /\ outcome' = outcome
    /\ UNCHANGED << options, ignoreFile, depDir, fileList, ignorer, formatterFunction, stylelint, globbed,
                    filePaths, tasks, all, log, formatterCalls, needlessCalls,
                    completionOrder >>

\* lines 48-58: the formatter function, Undefined when the name is unknown
ChooseFormatter(formatter) ==
    IF IsString(formatter) THEN Formatters(formatter.val)
    ELSE IF formatter.type = "function" THEN formatter
    ELSE Formatters("json")

SelectFormatter ==
    /\ pc = "formatter"
    /\ formatterFunction' = ChooseFormatter(options.formatter)
    /\ IF formatterFunction' = Undefined
       THEN /\ outcome' = Rejected(FormatterError)
            /\ pc' = "done"
       ELSE /\ pc' = "createEngine"
            /\ outcome' = outcome
    /\ UNCHANGED << options, ignoreFile, depDir, fileList, ignorer, stylelint, globbed, filePaths, tasks,
                    all, log, formatterCalls, needlessCalls, completionOrder >>

\* lines 60-69
CreateEngine ==
    /\ pc = "createEngine"
    /\ stylelint' = TRUE
    /\ log' = Append(log, "createStylelint")
    /\ pc' = "dispatch"
    /\ UNCHANGED << options, ignoreFile, depDir, fileList, ignorer, formatterFunction, globbed, filePaths,
                    tasks, all, outcome, formatterCalls, needlessCalls, completionOrder >>


(***************************************************************************)
(* Inline mode, lines 71-83                                                *)
(***************************************************************************)
\* lines 72-74
AbsoluteCodeFilename(codeFilename) ==
    IF codeFilename # Undefined /\ ~codeFilename.abs
    THEN Path(TRUE, codeFilename.dir, codeFilename.base)
    ELSE codeFilename

\* the source the engine gives the result of inline code
InlineSource(file) == IF Truthy(file) THEN file ELSE Str("<input css 1>")

\* line 75: the lint of the inline code is started
LintInline ==
    /\ pc = "dispatch"
    /\ ~Truthy(options.files)
    /\ tasks' = << PendingTask >>
    /\ log' = Append(log, "lintSource")
    /\ pc' = "inline"
    /\ UNCHANGED << options, ignoreFile, depDir, fileList, ignorer, formatterFunction, stylelint, globbed,
                    filePaths, all, outcome, formatterCalls, needlessCalls,
                    completionOrder >>

\* lines 75-80: the engine settles and .catch(handleError) has run
InlineSettle ==
    /\ pc = "inline"
    /\ tasks[1].state = "pending"
    /\ \E kind \in EngineKinds :
         LET file == AbsoluteCodeFilename(options.codeFilename)
             settled == handleError(EngineOutcome(kind, 1, file, InlineSource(file)))
         IN  tasks' = << [state |-> settled.state, value |-> settled.value, raw |-> kind] >>
    /\ completionOrder' = Append(completionOrder, 1)
    /\ UNCHANGED << options, ignoreFile, depDir, fileList, pc, ignorer, formatterFunction, stylelint, globbed,
                    filePaths, all, outcome, log, formatterCalls, needlessCalls >>

\* lines 80-82: .then(stylelintResult => prepareReturnValue([stylelintResult]))
FinishInline ==
    /\ pc = "inline"
    /\ tasks[1].state # "pending"
    /\ outcome.kind = "pending"
    /\ IF tasks[1].state = "fulfilled"
       THEN LET results == << tasks[1].value >>
            IN  /\ outcome' = Resolved(prepareReturnValue(results, formatterFunction,
                                                          options.reportNeedlessDisables))
                /\ formatterCalls' = Append(formatterCalls, results)
                /\ needlessCalls' = IF options.reportNeedlessDisables
                                    THEN Append(needlessCalls, results)
                                    ELSE needlessCalls
       ELSE /\ outcome' = Rejected(tasks[1].value)
            /\ UNCHANGED << formatterCalls, needlessCalls >>
    /\ pc' = "done"
    /\ UNCHANGED << options, ignoreFile, depDir, fileList, ignorer, formatterFunction, stylelint, globbed,
                    filePaths, tasks, all, log, completionOrder >>

(***************************************************************************)
(* File mode, lines 85-113                                                 *)
(***************************************************************************)
\* lines 85-93: the pattern list is built and globby is called with it
StartGlobby ==
    /\ pc = "dispatch"
    /\ Truthy(options.files)
    /\ fileList' = FileList(options.files, options.disableDefaultIgnores)
    /\ log' = Append(log, "globby")
    /\ pc' = "globbing"
    /\ UNCHANGED << options, ignoreFile, depDir, ignorer, formatterFunction, stylelint, globbed,
                    filePaths, tasks, all, outcome, formatterCalls, needlessCalls,
                    completionOrder >>

\* globby's promise rejects: neither callback of lines 93-113 runs
GlobbyRejects ==
    /\ pc = "globbing"
    /\ outcome' = Rejected(JsError("Error", "glob", 0, Undefined))
    /\ pc' = "done"
    /\ UNCHANGED << options, ignoreFile, depDir, fileList, ignorer, formatterFunction, stylelint, globbed,
                    filePaths, tasks, all, log, formatterCalls, needlessCalls,
                    completionOrder >>

\* line 95
FilterPaths(rules, paths) ==
    IgnorerFilter(rules, [k \in 1..Len(paths) |-> PathRelative(paths[k])])

\* an empty list of paths taken for a failure
NewJoinRejectsEmpty(n) ==
    [state |-> IF n = 0 THEN "rejected" ELSE "pending",
     values |-> [k \in 1..n |-> Undefined], settled |-> {},
     error |-> IF n = 0 THEN JsError("Error", "no-files", 0, Undefined) ELSE Undefined]

\* an empty list of promises that never settles
NewJoinEmptyPending(n) ==
    [state |-> "pending", values |-> [k \in 1..n |-> Undefined], settled |-> {},
     error |-> Undefined]

\* Promise.all(promises) just created: settled at once for no promise
NewJoin(n) ==
    [state |-> IF n = 0 THEN "fulfilled" ELSE "pending",
     values |-> [k \in 1..n |-> Undefined], settled |-> {}, error |-> Undefined]

\* a pool that starts the first lint only and leaves the others waiting
StartLintsOneAtATime(paths) == [k \in 1..(IF Len(paths) > 0 THEN 1 ELSE 0) |-> PendingTask]

\* lines 101-110: filePaths.map calls _lintSource for every path in turn, and
\* none of the calls waits for a promise
StartLints(paths) == [k \in 1..Len(paths) |-> PendingTask]

\* lines 93-112: globby resolves; the callback filters the paths, starts one
\* lint per path left and joins them
GlobbyResolves ==
    /\ pc = "globbing"
    /\ globbed' = Globby(fileList)
    /\ filePaths' = FilterPaths(ignorer, globbed')
    /\ tasks' = StartLints(filePaths')
    /\ log' = log \o [k \in 1..Len(tasks') |-> "lintSource"]
    /\ all' = NewJoin(Len(filePaths'))
    /\ pc' = "linting"
    /\ UNCHANGED << options, ignoreFile, depDir, fileList, ignorer, formatterFunction, stylelint, outcome,
                    formatterCalls, needlessCalls, completionOrder >>

\* a join that stores each value in the next free slot, in completion order
JoinSettleInCompletionOrder(join, i, settled) ==
    IF join.state # "pending" THEN join
    ELSE IF settled.state = "rejected"
         THEN [join EXCEPT !.state = "rejected", !.error = settled.value]
         ELSE LET done == join.settled \cup {i}
              IN  [join EXCEPT !.values[Cardinality(done)] = settled.value,
                               !.settled = done,
                               !.state = IF Cardinality(done) = Len(join.values)
                                         THEN "fulfilled" ELSE "pending"]

\* a join that a later rejection rejects again: the last error wins
JoinSettleLastErrorWins(join, i, settled) ==
    IF settled.state = "rejected" /\ join.state \in {"pending", "rejected"}
    THEN [join EXCEPT !.state = "rejected", !.error = settled.value]
    ELSE IF join.state # "pending" THEN join
    ELSE LET done == join.settled \cup {i}
         IN  [join EXCEPT !.values[i] = settled.value,
                          !.settled = done,
                          !.state = IF Cardinality(done) = Len(join.values)
                                    THEN "fulfilled" ELSE "pending"]

\* a join rejected with the error of the lowest input that has failed so far
JoinSettleLowestIndexError(join, i, settled) ==
    IF settled.state = "rejected" /\ join.state = "rejected"
    THEN IF settled.value.task < join.error.task
         THEN [join EXCEPT !.error = settled.value] ELSE join
    ELSE IF join.state # "pending" THEN join
    ELSE IF settled.state = "rejected"
         THEN [join EXCEPT !.state = "rejected", !.error = settled.value]
         ELSE LET done == join.settled \cup {i}
              IN  [join EXCEPT !.values[i] = settled.value,
                               !.settled = done,
                               !.state = IF Cardinality(done) = Len(join.values)
                                         THEN "fulfilled" ELSE "pending"]

\* a join fulfilled by the first value that arrives
JoinSettleFirstValue(join, i, settled) ==
    IF join.state # "pending" THEN join
    ELSE IF settled.state = "rejected"
         THEN [join EXCEPT !.state = "rejected", !.error = settled.value]
         ELSE [join EXCEPT !.values[i] = settled.value,
                           !.settled = join.settled \cup {i},
                           !.state = "fulfilled"]

\* Promise.all's reaction to promise i settling as `settled`
JoinSettle(join, i, settled) ==
    IF join.state # "pending" THEN join
    ELSE IF settled.state = "rejected"
         THEN [join EXCEPT !.state = "rejected", !.error = settled.value]
         ELSE LET done == join.settled \cup {i}
              IN  [join EXCEPT !.values[i] = settled.value,
                               !.settled = done,
                               !.state = IF Cardinality(done) = Len(join.values)
                                         THEN "fulfilled" ELSE "pending"]

\* lines 105-109 and 112: the lint of input i settles, .catch(handleError) runs
\* and Promise.all takes the settlement
TaskSettle(i) ==
    /\ pc = "linting"
    /\ i \in 1..Len(tasks)
    /\ tasks[i].state = "pending"
    /\ \E kind \in EngineKinds :
         LET settled == handleError(EngineOutcome(kind, i, Absolute(filePaths[i]),
                                                  filePaths[i]))
         IN  /\ tasks' = [tasks EXCEPT ![i] = [state |-> settled.state,
                                               value |-> settled.value, raw |-> kind]]
             /\ all' = JoinSettle(all, i, settled)
    /\ completionOrder' = Append(completionOrder, i)
    /\ UNCHANGED << options, ignoreFile, depDir, fileList, pc, ignorer, formatterFunction, stylelint, globbed,
                    filePaths, outcome, log, formatterCalls, needlessCalls >>

\* line 113: .then(prepareReturnValue) on the settled join
Finish ==
    /\ pc = "linting"
    /\ all.state \in {"fulfilled", "rejected"}
    /\ outcome.kind = "pending"
    /\ IF all.state = "fulfilled"
       THEN /\ outcome' = Resolved(prepareReturnValue(all.values, formatterFunction,
                                                      options.reportNeedlessDisables))
            /\ formatterCalls' = Append(formatterCalls, all.values)
            /\ needlessCalls' = IF options.reportNeedlessDisables
                                THEN Append(needlessCalls, all.values)
                                ELSE needlessCalls
       ELSE /\ outcome' = Rejected(all.error)
            /\ UNCHANGED << formatterCalls, needlessCalls >>
    /\ UNCHANGED << options, ignoreFile, depDir, fileList, pc, ignorer, formatterFunction, stylelint, globbed,
                    filePaths, tasks, all, log, completionOrder >>

Next ==
    \/ ReadIgnoreFile
    \/ ValidateInput
    \/ SelectFormatter
    \/ CreateEngine
    \/ LintInline
    \/ InlineSettle
    \/ FinishInline
    \/ StartGlobby
    \/ GlobbyRejects
    \/ GlobbyResolves
    \/ \E i \in 1..Len(FsFiles) : TaskSettle(i)
    \/ Finish

Spec == Init /\ [][Next]_vars

\* what the JavaScript run time guarantees: the synchronous body of the
\* function runs to its end, and the reaction of a settled promise is run.
\* Nothing makes globby or the engine settle.
RunToCompletion ==
    /\ WF_vars(ReadIgnoreFile)
    /\ WF_vars(ValidateInput)
    /\ WF_vars(SelectFormatter)
    /\ WF_vars(CreateEngine)
    /\ WF_vars(LintInline)
    /\ WF_vars(StartGlobby)
    /\ WF_vars(FinishInline)
    /\ WF_vars(Finish)

LiveSpec == Init /\ [][Next]_vars /\ RunToCompletion


(***************************************************************************)
(* Properties                                                              *)
(***************************************************************************)
FileMode == Truthy(options.files)
Ended == outcome.kind # "pending"
TaskIds == 1..Len(tasks)
Settled(i) == tasks[i].state # "pending"

\* C1: in file mode a resolved invocation has one result per resolved input,
\* and result i is the one the lint of input i produced, whatever the order
\* in which the lints completed.
C1ResultsFollowInputs ==
    (FileMode /\ outcome.kind = "resolved") =>
        LET results == outcome.value.results
        IN  /\ Len(results) = Len(filePaths)
            /\ \A i \in 1..Len(filePaths) :
                 /\ results[i] = tasks[i].value
                 /\ results[i].source \in {filePaths[i], Absolute(filePaths[i])}

\* a resolved batch whose second input completed first, with different results
C1Witness ==
    /\ FileMode
    /\ outcome.kind = "resolved"
    /\ Len(filePaths) >= 2
    /\ completionOrder[1] = 2
    /\ outcome.value.results[1] # outcome.value.results[2]
    /\ tasks[1].raw # tasks[2].raw

\* C2: a CssSyntaxError raised by the lint of input i never rejects the
\* batch: no invocation is rejected with it, and once every lint has settled
\* without another kind of failure the join is fulfilled; in the report
\* results[i] is errored and carries a warning whose rule is the error's name,
\* and every input whose lint succeeded has exactly the engine's result.
C2ParseFailureIsolated ==
    /\ outcome.kind = "rejected" => outcome.value.name # "CssSyntaxError"
    /\ \A i \in TaskIds : tasks[i].raw = "syntax" => tasks[i].state = "fulfilled"
    /\ (FileMode /\ pc = "linting" /\ \A i \in TaskIds : tasks[i].raw \in {"clean", "errored", "syntax"})
          => (all.state = "fulfilled" /\ outcome.kind \in {"pending", "resolved"})
    /\ outcome.kind = "resolved" =>
          \A i \in TaskIds :
             LET r == outcome.value.results[i]
             IN  /\ tasks[i].raw = "syntax" =>
                       /\ r.errored
                       /\ \E w \in 1..Len(r.warnings) : r.warnings[w].rule = "CssSyntaxError"
                 /\ tasks[i].raw \in {"clean", "errored"} =>
                       r = EngineResult(IF FileMode THEN filePaths[i]
                                        ELSE InlineSource(AbsoluteCodeFilename(options.codeFilename)),
                                        tasks[i].raw = "errored")

\* a resolved batch of a syntax error, a clean result and an errored one
C2Witness ==
    /\ FileMode
    /\ outcome.kind = "resolved"
    /\ \E i, j, k \in TaskIds :
         tasks[i].raw = "syntax" /\ tasks[j].raw = "clean" /\ tasks[k].raw = "errored"

\* the first lint, in completion order, that failed with another error than a
\* syntax error (0: none)
FirstFatal ==
    LET at == { n \in 1..Len(completionOrder) : tasks[completionOrder[n]].raw = "fatal" }
    IN  IF at = {} THEN 0
        ELSE completionOrder[CHOOSE n \in at : \A m \in at : n <= m]

\* C3: once a lint has failed with an error that is no syntax error, the join
\* (or the inline chain) is rejected with the failure of the first such lint, the
\* invocation is rejected with it or still has to take that rejection, and no
\* report, formatter call or needless-disable analysis exists - whatever the
\* other lints did or still do.
C3FatalRejects ==
    (\E i \in TaskIds : tasks[i].raw = "fatal") =>
        /\ outcome.kind \in {"pending", "rejected"}
        /\ FileMode => (all.state = "rejected" /\ all.error = tasks[FirstFatal].value)
        /\ outcome.kind = "rejected" =>
              /\ outcome.value = tasks[FirstFatal].value
              /\ outcome.value.name # "CssSyntaxError"
              /\ outcome.value.task = FirstFatal
        /\ formatterCalls = << >>
        /\ needlessCalls = << >>

\* a batch rejected by its second input while one lint has completed with a
\* syntax error, one is in flight
C3Witness ==
    /\ FileMode
    /\ outcome.kind = "rejected"
    /\ FirstFatal = 2
    /\ \E i, j \in TaskIds : tasks[i].raw = "syntax" /\ tasks[j].state = "pending"

\* C4: an invocation ends by resolving to a complete report or by rejecting
\* with one error, never otherwise: every failure is a rejection of the promise.
C4ResolvesOrRejects ==
    /\ outcome.kind \in {"pending", "resolved", "rejected"}
    /\ outcome.kind = "resolved" =>
          /\ Len(outcome.value.results) = Len(tasks)
          /\ \A i \in TaskIds : Settled(i)

\* files and code as the code reads them at line 43-44
FilesSupplied == Truthy(options.files)
CodeSupplied == IsString(options.code)
ExactlyOneSupplied == FilesSupplied # CodeSupplied
NoEngineWork ==
    /\ ~stylelint
    /\ tasks = << >>
    /\ \A k \in 1..Len(log) : log[k] \notin {"createStylelint", "globby", "lintSource"}

\* C5: validation succeeds iff exactly one of files and code is supplied; with
\* both or neither the invocation fails with the configuration error and no
\* engine is created, no glob expanded, no lint started.
C5ExactlyOneInput ==
    /\ pc \notin {"readIgnore", "validate", "done"} => ExactlyOneSupplied
    /\ ExactlyOneSupplied => outcome.value # FilesOrCodeError
    /\ ~ExactlyOneSupplied =>
          /\ NoEngineWork
          /\ pc = "done" => (outcome.kind \in {"threw", "rejected"}
                             /\ outcome.value = FilesOrCodeError)

IsConfigurationError(e) == e \in {FilesOrCodeError, FormatterError}

\* C6: when an invocation fails with a configuration error, no filesystem
\* access and no engine work has taken place.
C6ConfigurationErrorBeforeIo ==
    (outcome.kind \in {"threw", "rejected"} /\ IsConfigurationError(outcome.value)) =>
        (log = << >> /\ NoEngineWork)

UnknownFormatter ==
    IsString(options.formatter) /\ options.formatter.val \notin FormatterNames

\* C7: a formatter name that is not in the registry makes the invocation
\* reject with a configuration error before the engine is created, a glob
\* expanded or a lint started; a function is used as it is; any other value
\* selects the json formatter.
C7FormatterSelection ==
    /\ UnknownFormatter =>
          /\ NoEngineWork
          /\ pc = "done" => (outcome.kind = "rejected" /\ IsConfigurationError(outcome.value))
    /\ (stylelint /\ options.formatter.type = "function") =>
          formatterFunction = options.formatter
    /\ (stylelint /\ options.formatter.type \notin {"function", "string"}) =>
          formatterFunction = Func("json")


\* C8: the report of every resolved batch is errored iff one of its results is.
C8ErroredIsAnyErrored ==
    outcome.kind = "resolved" =>
        (outcome.value.errored <=>
            \E k \in 1..Len(outcome.value.results) : outcome.value.results[k].errored)

\* an errored report of a clean result and a converted syntax error
C8Witness ==
    /\ outcome.kind = "resolved"
    /\ outcome.value.errored
    /\ \E i, j \in TaskIds :
         /\ tasks[i].raw = "clean" /\ ~outcome.value.results[i].errored
         /\ tasks[j].raw = "syntax" /\ outcome.value.results[j].errored

\* the path lists of up to two files of the disk, relative or absolute
SomePathLists ==
    LET paths == { Path(a, FsFiles[k].dir, FsFiles[k].base) :
                     a \in BOOLEAN, k \in 1..Len(FsFiles) }
    IN  { << >> } \cup { << p >> : p \in paths } \cup { << p, q >> : p, q \in paths }

\* C9: a missing ignore file gives no rule, a matcher that filters nothing,
\* and an invocation that goes on; any other read failure is thrown, and
\* ends the invocation before the engine is created or a lint started.
C9IgnoreFileRead ==
    pc # "readIgnore" =>
        /\ ignoreFile.code = "ENOENT" =>
              /\ ignorer = << >>
              /\ \A paths \in SomePathLists : IgnorerFilter(ignorer, paths) = paths
              /\ outcome.value # ReadError(ignoreFile.code)
              /\ pc = "linting" => Len(filePaths) = Len(globbed)
        /\ ignoreFile.code \notin {"OK", "ENOENT"} =>
              /\ outcome = Threw(ReadError(ignoreFile.code))
              /\ pc = "done"
              /\ NoEngineWork

\* without an ignore file every globbed path is linted and reported
C9Witness ==
    /\ ignoreFile.code = "ENOENT"
    /\ outcome.kind = "resolved"
    /\ Len(globbed) = Len(FsFiles)
    /\ Len(outcome.value.results) = Len(FsFiles)

\* the ignore file holds a line that is the name of p: the name at the start of
\* the text or after a "\n", and followed by the end of the text, "\n" or "\r\n"
MatchedByIgnoreFile(p) ==
    LET text == ignoreFile.text
    IN  \E a \in 1..Len(text) :
           /\ text[a] = p.base
           /\ (a = 1 \/ text[a - 1] = LF)
           /\ \/ a = Len(text)
              \/ text[a + 1] = LF
              \/ (a + 2 <= Len(text) /\ text[a + 1] = CR /\ text[a + 2] = LF)

\* C10: in file mode the inputs are the globbed paths that no rule of the
\* ignore file matches, in the order of the glob expansion; one lint is
\* started per input and no result is about an ignored path.
C10IgnoredNeverLinted ==
    (FileMode /\ pc = "linting") =>
        /\ filePaths = SelectSeq([k \in 1..Len(globbed) |-> PathRelative(globbed[k])],
                                 LAMBDA p : ~MatchedByIgnoreFile(p))
        /\ Len(tasks) = Len(filePaths)
        /\ Len(SelectSeq(log, LAMBDA e : e = "lintSource")) = Len(filePaths)
        /\ outcome.kind = "resolved" =>
              \A k \in 1..Len(outcome.value.results) :
                 \E i \in 1..Len(filePaths) :
                    /\ outcome.value.results[k].source \in {filePaths[i], Absolute(filePaths[i])}
                    /\ ~MatchedByIgnoreFile(filePaths[i])

\* a resolved batch in which a globbed path was ignored and two were linted
C10Witness ==
    /\ FileMode
    /\ outcome.kind = "resolved"
    /\ \E k \in 1..Len(globbed) : MatchedByIgnoreFile(globbed[k])
    /\ Len(filePaths) >= 2
    /\ Len(outcome.value.results) = Len(filePaths)


(***************************************************************************)
(* What the prologue does guarantee, in the order the code runs it: the    *)
(* ignore file is read, then files/code are checked, then the formatter.   *)
(***************************************************************************)
\* once line 44 is passed exactly one of files and code is supplied; with both
\* or neither the invocation throws, the read error or the files/code error
ValidationDecides ==
    /\ pc \notin {"readIgnore", "validate", "done"} => ExactlyOneSupplied
    /\ outcome.value = FilesOrCodeError => (~ExactlyOneSupplied /\ outcome.kind = "threw")
    /\ ~ExactlyOneSupplied =>
          /\ NoEngineWork
          /\ pc = "done" => outcome \in {Threw(FilesOrCodeError),
                                         Threw(ReadError(ignoreFile.code))}

\* an unknown formatter name ends the invocation before the engine exists: by
\* the rejection of line 52, or by one of the two errors thrown before it
FormatterDecides ==
    UnknownFormatter =>
        /\ NoEngineWork
        /\ pc \in {"readIgnore", "validate", "formatter", "done"}
        /\ pc = "done" => outcome \in {Rejected(FormatterError), Threw(FilesOrCodeError),
                                       Threw(ReadError(ignoreFile.code))}

\* a configuration error follows the read of the ignore file and nothing else
ConfigurationErrorAfterIgnoreRead ==
    (Ended /\ IsConfigurationError(outcome.value)) =>
        (log = << "readFileSync" >> /\ NoEngineWork)


\* the patterns of the user, as a list
UserPatterns == IF IsString(options.files) THEN << options.files >> ELSE options.files.val
GlobbyCalled == \E k \in 1..Len(log) : log[k] = "globby"
InDependencyDir(p) == p.dir \in DependencyDirs

\* C11: unless disableDefaultIgnores is set, globby is called with the
\* patterns of the user followed by the negated globs of node_modules and
\* bower_components, and no path under one of them is a lint input or the
\* source of a result; when it is set globby gets the user's patterns as
\* they are.
C11DefaultIgnoresAppended ==
    GlobbyCalled =>
        IF ~options.disableDefaultIgnores
        THEN /\ Len(fileList) = Len(UserPatterns) + 2
             /\ SubSeq(fileList, 1, Len(UserPatterns)) = UserPatterns
             /\ \A d \in DependencyDirs :
                   \E k \in (Len(UserPatterns) + 1)..Len(fileList) :
                      fileList[k] = Negate(Under(d))
             /\ \A i \in 1..Len(filePaths) : ~InDependencyDir(filePaths[i])
             /\ Len(tasks) = Len(filePaths)
             /\ outcome.kind = "resolved" =>
                   \A k \in 1..Len(outcome.value.results) :
                      ~InDependencyDir(outcome.value.results[k].source)
        ELSE fileList = UserPatterns

\* a resolved batch whose pattern matches the style sheet of a dependency
\* and which lints the style sheets of the working directory alone
C11Witness ==
    /\ GlobbyCalled
    /\ ~options.disableDefaultIgnores
    /\ outcome.kind = "resolved"
    /\ \E g \in 1..Len(UserPatterns), f \in 1..Len(FsFiles) :
          GlobMatches(UserPatterns[g], FsFiles[f]) /\ FsFiles[f].dir \in DependencyDirs
    /\ Len(outcome.value.results) = NumFiles


\* C12: the report of a resolved invocation has the needlessDisables field
\* iff reportNeedlessDisables was asked for; without the option the field
\* does not exist and the analysis is not run, with it the analysis is run
\* once, on the results the report returns.
C12NeedlessDisablesIffRequested ==
    outcome.kind = "resolved" =>
        /\ ("needlessDisables" \in DOMAIN outcome.value) <=> options.reportNeedlessDisables
        /\ options.reportNeedlessDisables =>
              /\ needlessCalls = << outcome.value.results >>
              /\ outcome.value.needlessDisables = NeedlessDisables(outcome.value.results)
        /\ ~options.reportNeedlessDisables =>
              /\ needlessCalls = << >>
              /\ DOMAIN outcome.value = {"errored", "output", "results"}

\* a report with the analysis of two results
C12Witness ==
    /\ outcome.kind = "resolved"
    /\ options.reportNeedlessDisables
    /\ Len(outcome.value.results) >= 2
    /\ "needlessDisables" \in DOMAIN outcome.value
    /\ outcome.value.needlessDisables.needless = outcome.value.results


\* C13: when no path is left by the glob expansion and the ignore filter,
\* no lint is started, the join is fulfilled with no value, and the
\* invocation is not rejected: it resolves to a report of no result that is
\* not errored.
C13NoPathResolvesEmpty ==
    (FileMode /\ pc = "linting" /\ filePaths = << >>) =>
        /\ tasks = << >>
        /\ \A k \in 1..Len(log) : log[k] # "lintSource"
        /\ all.state = "fulfilled"
        /\ all.values = << >>
        /\ outcome.kind \in {"pending", "resolved"}
        /\ outcome.kind = "resolved" =>
              /\ outcome.value.results = << >>
              /\ outcome.value.errored = FALSE
              /\ formatterCalls = << << >> >>

\* an empty report although the patterns matched files: all were ignored
C13Witness ==
    /\ FileMode
    /\ globbed # << >>
    /\ filePaths = << >>
    /\ outcome.kind = "resolved"
    /\ outcome.value.results = << >>
    /\ ~outcome.value.errored


\* C14: in inline mode without codeFilename a resolved invocation reports
\* exactly one result, whose source is "<input css 1>", be it the engine's
\* result or a converted syntax error; globby is not called and no path is
\* filtered.
C14InlineOneResult ==
    (~FileMode /\ options.codeFilename = Undefined /\ outcome.kind = "resolved") =>
        /\ IsString(options.code)
        /\ Len(outcome.value.results) = 1
        /\ outcome.value.results[1].source = Str("<input css 1>")
        /\ Len(tasks) = 1
        /\ ~GlobbyCalled
        /\ fileList = << >> /\ globbed = << >> /\ filePaths = << >>
        /\ all = NoJoin

\* the report of inline code that has a syntax error
C14Witness ==
    /\ ~FileMode
    /\ options.codeFilename = Undefined
    /\ outcome.kind = "resolved"
    /\ tasks[1].raw = "syntax"
    /\ outcome.value.results[1].source = Str("<input css 1>")
    /\ outcome.value.errored


InFlight == { i \in TaskIds : tasks[i].state = "pending" }
LintsStarted == Len(SelectSeq(log, LAMBDA e : e = "lintSource"))

\* C15: in file mode the lint of every resolved input is started by the
\* callback of globby, before any lint completes: as long as none has
\* completed all of them are in flight together, and once one has completed
\* none is left to start.
C15AllStartedUpFront ==
    (FileMode /\ pc = "linting") =>
        /\ Len(tasks) = Len(filePaths)
        /\ LintsStarted = Len(filePaths)
        /\ completionOrder = << >> => InFlight = 1..Len(filePaths)
        /\ Cardinality(InFlight) + Len(completionOrder) = Len(filePaths)

\* every file of the disk is being linted and none has completed
C15Witness ==
    /\ FileMode
    /\ pc = "linting"
    /\ completionOrder = << >>
    /\ Len(filePaths) = Len(FsFiles)
    /\ InFlight = 1..Len(FsFiles)


\* the batch has been rejected: the join, the inline chain or the invocation
BatchRejected ==
    \/ all.state = "rejected"
    \/ outcome.kind = "rejected"
    \/ (tasks # << >> /\ \E i \in TaskIds : tasks[i].state = "rejected")

\* C16: once the batch is rejected it stays rejected with the same error: no
\* later step changes the error of the join or the outcome of the
\* invocation, makes a report or calls the formatter or the needless-disable
\* analysis; the lints in flight are not aborted, each can still settle.
C16RejectedStaysRejected ==
    /\ [](\A i \in 1..Len(FsFiles) :
             (pc = "linting" /\ i \in InFlight) => ENABLED TaskSettle(i))
    /\ [][ /\ all.state = "rejected" => (all'.state = "rejected" /\ all'.error = all.error)
           /\ outcome.kind = "rejected" => outcome' = outcome
           /\ BatchRejected =>
                 /\ BatchRejected'
                 /\ outcome'.kind \in {"pending", "rejected"}
                 /\ outcome'.kind = "rejected" =>
                       outcome'.value = (IF FileMode THEN all.error ELSE tasks[1].value)
                 /\ formatterCalls = << >> /\ formatterCalls' = << >>
                 /\ needlessCalls = << >> /\ needlessCalls' = << >>
         ]_vars

\* a rejected invocation whose lints went on after the failure that rejected
\* it: another failure, then a result
C16Witness ==
    /\ outcome.kind = "rejected"
    /\ Len(completionOrder) = 3
    /\ tasks[completionOrder[1]].raw = "fatal"
    /\ tasks[completionOrder[2]].raw = "fatal"
    /\ tasks[completionOrder[3]].raw = "clean"
    /\ outcome.value = tasks[completionOrder[1]].value


\* C17 as stated: while the lint of any input is unsettled the invocation is
\* unsettled, whatever the other lints do
C17HangHangsInvocation ==
    (pc \in {"inline", "linting"} /\ InFlight # {}) => outcome.kind = "pending"

\* C17: no timeout: while the lint of any input is unsettled the invocation
\* does not resolve; it rejects only with the error of another lint that
\* failed fatally, and stays unsettled as long as no lint has done so.
C17HangNeverResolves ==
    (pc \in {"inline", "linting"} /\ InFlight # {}) =>
        /\ outcome.kind # "resolved"
        /\ formatterCalls = << >>
        /\ outcome.kind = "rejected" =>
              \E j \in TaskIds \ InFlight :
                  /\ tasks[j].state = "rejected"
                  /\ outcome.value = tasks[j].value
        /\ (\A j \in TaskIds : tasks[j].state # "rejected") =>
              /\ outcome.kind = "pending"
              /\ FileMode => all.state = "pending"

\* one lint hangs, every other one has produced a result, nothing is settled
C17Witness ==
    /\ FileMode /\ pc = "linting"
    /\ Cardinality(InFlight) = 1
    /\ Len(completionOrder) = Len(FsFiles) - 1
    /\ \A j \in TaskIds \ InFlight : tasks[j].state = "fulfilled"
    /\ outcome.kind = "pending"


\* the results of the lints, in input order
TaskValues == [k \in TaskIds |-> tasks[k].value]

\* C18: the formatter is called at most once, and only when every lint has
\* settled with a result (a normal one or a converted parse failure); it is
\* called with the results in input order, the sequence the report returns,
\* and its rendering is the report's output; an invocation that threw or
\* rejected has not called it, a resolved one has.
C18FormatterOnceOnAllResults ==
    /\ Len(formatterCalls) <= 1
    /\ formatterCalls # << >> =>
          /\ outcome.kind = "resolved"
          /\ \A i \in TaskIds : tasks[i].state = "fulfilled"
          /\ formatterCalls[1] = TaskValues
          /\ formatterCalls[1] = outcome.value.results
          /\ outcome.value.output = Format(formatterFunction, formatterCalls[1])
    /\ outcome.kind \in {"threw", "rejected"} => formatterCalls = << >>
    /\ outcome.kind = "resolved" => Len(formatterCalls) = 1

\* the formatter was called on a full batch that holds a normal result and a
\* converted parse failure, the later input having completed first
C18Witness ==
    /\ Len(formatterCalls) = 1
    /\ Len(formatterCalls[1]) = Len(FsFiles)
    /\ completionOrder[1] = Len(FsFiles)
    /\ \E i, j \in TaskIds : tasks[i].raw = "syntax" /\ tasks[j].raw = "clean"


\* what the lint of input i settles with, from its own outcome alone
SettledAlone(i) ==
    handleError(EngineOutcome(tasks[i].raw, i, Absolute(filePaths[i]), filePaths[i]))

\* the report made from the outcomes of the inputs, in input order
ReportOfOutcomes ==
    prepareReturnValue([k \in TaskIds |-> SettledAlone(k).value], formatterFunction,
                       options.reportNeedlessDisables)

\* C19: the report of a resolved batch is determined by the outcomes of the
\* inputs, the completion order has no part in it; the error of a batch
\* rejected by its lints is the one of the lint that failed first in time.
C19ReportOfOutcomesErrorOfFirst ==
    /\ (FileMode /\ outcome.kind = "resolved") =>
          /\ FirstFatal = 0
          /\ outcome.value = ReportOfOutcomes
    /\ (FileMode /\ FirstFatal # 0) =>
          /\ all.state = "rejected"
          /\ all.error = tasks[FirstFatal].value
          /\ outcome.kind = "rejected" => outcome.value = tasks[FirstFatal].value

\* two lints failed, the one of the later input first: the invocation is
\* rejected with its error, not with the error of the lowest failed input
C19Witness ==
    /\ FileMode /\ outcome.kind = "rejected"
    /\ Len(completionOrder) >= 2
    /\ completionOrder[1] = 2 /\ completionOrder[2] = 1
    /\ tasks[1].raw = "fatal" /\ tasks[2].raw = "fatal"
    /\ outcome.value = tasks[2].value
    /\ outcome.value # tasks[1].value


\* neither the glob expansion nor a lint is in flight
NothingInFlight == pc # "globbing" /\ InFlight = {}

\* the glob expansion settles and every started lint settles: from some
\* point on nothing is in flight any more
AllSettle == <>[]NothingInFlight

\* C20: if the glob expansion settles and every started lint settles, the
\* invocation eventually settles: it throws, rejects or resolves, and once
\* settled its outcome never changes.
C20EventuallySettlesOnce ==
    /\ AllSettle => <>Ended
    /\ [][Ended => outcome' = outcome]_vars

\* an invocation that settled after its glob expansion and all of its lints
\* had settled
C20Witness ==
    /\ FileMode /\ Ended
    /\ Len(tasks) = Len(FsFiles)
    /\ Len(completionOrder) = Len(FsFiles)
    /\ InFlight = {}

=============================================================================
